---- MODULE Spec2Model ----
(***************************************************************************)
(* Model of the partialdownload command of ptool: the scan that splits a   *)
(* torrent's files into chunks and the two file-priority calls that        *)
(* follow it.                                                              *)
(***************************************************************************)
EXTENDS Integers, Sequences, FiniteSets

\* Bounds of the explored inputs.
MaxFiles == 3
MaxSize == 3
MaxChunkSize == 2
MaxChunkIndex == 2
MaxPathOrders == 6

VARIABLES
    chunkSize,              \* parsed --chunk-size
    chunkIndex,             \* --chunk-index
    showAll,                \* --all
    strict,                 \* --strict
    originalOrder,          \* --original-order
    clientFiles,            \* the torrent's contents as the client holds them
    priority,               \* the torrent's file priorities in the client
    calls,                  \* SetFilePriority calls issued so far
    clientState,            \* "none", "open" or "closed"
    torrentFiles,           \* the local slice after fetch (and sort)
    pos,                    \* number of files the range loop has consumed
    chunks,
    currentChunkIndex,
    currentChunkSize,
    currentChunkFilesCnt,
    downloadFileIndexes,
    noDownloadFileIndexes,
    allSize,
    trace,                  \* per scanned file: what lines 116-128 did with it
    pc,
    outcome

vars == <<chunkSize, chunkIndex, showAll, strict, originalOrder, clientFiles,
          priority, calls, clientState, torrentFiles, pos, chunks,
          currentChunkIndex, currentChunkSize, currentChunkFilesCnt,
          downloadFileIndexes, noDownloadFileIndexes, allSize, trace, pc,
          outcome>>

flags == <<chunkSize, chunkIndex, showAll, strict, originalOrder, clientFiles>>
scanVars == <<chunks, currentChunkIndex, currentChunkSize,
              currentChunkFilesCnt, downloadFileIndexes,
              noDownloadFileIndexes, trace>>

----------------------------------------------------------------------------
\* Helpers

\* Chunk{Index, FilesCnt, Size}
Chunk(index, filesCnt, size) ==
    [Index |-> index, FilesCnt |-> filesCnt, Size |-> size]

\* The assignments of n distinct paths to the n files of a list (paths are
\* numbered in ascending order).
Perms(n) == {p \in [1..n -> 1..n] : \A i, j \in 1..n : p[i] = p[j] => i = j}

\* p comes before q in lexicographic order.
LexLess(p, q) ==
    \E i \in DOMAIN p : p[i] < q[i] /\ \A j \in 1..(i - 1) : p[j] = q[j]

\* The path orders explored for a list of n files: the first MaxPathOrders
\* assignments in lexicographic order (all of them for lists of up to 3
\* files with MaxPathOrders = 6). In original-order mode the paths are never
\* compared, and the ascending order stands for all of them.
PathOrders(n, keepOrder) ==
    IF keepOrder THEN {[i \in 1..n |-> i]}
    ELSE LET perms == Perms(n)
         IN  {p \in perms :
                Cardinality({q \in perms : LexLess(q, p)}) < MaxPathOrders}

\* The lists GetTorrentContents can return: file k of the torrent has
\* Index k, a path that is unique in the torrent and a size >= 0.
FileLists(keepOrder) ==
    UNION {{[i \in 1..n |-> [Index |-> i - 1, Path |-> p[i], Size |-> s[i]]] :
              p \in PathOrders(n, keepOrder),
              s \in [1..n -> 0..MaxSize]} : n \in 0..MaxFiles}

RECURSIVE InsertByPath(_, _)
InsertByPath(f, s) ==
    IF s = <<>> THEN <<f>>
    ELSE IF f.Path < Head(s).Path THEN <<f>> \o s
    ELSE <<Head(s)>> \o InsertByPath(f, Tail(s))

\* sort.Slice(torrentFiles, less on Path)
RECURSIVE SortByPath(_)
SortByPath(s) ==
    IF s = <<>> THEN <<>> ELSE InsertByPath(Head(s), SortByPath(Tail(s)))

\* strict && file.Size > chunkSize
TooLarge(size, cSize, isStrict) == isStrict /\ size > cSize

\* Faulty variant: the strict half of the condition is lost.
ShouldClose_IgnoresStrict(cur, size, cSize, isStrict) ==
    cur >= cSize

\* Faulty variant: the strict half of the condition applies in both modes.
ShouldClose_AlwaysStrict(cur, size, cSize, isStrict) ==
    cur >= cSize \/ cur + size > cSize

\* Faulty variant: strict guards the whole condition.
ShouldClose_StrictOnly(cur, size, cSize, isStrict) ==
    isStrict /\ (cur >= cSize \/ cur + size > cSize)

\* Faulty variant: the comparison with chunkSize is reversed.
ShouldClose_Reversed(cur, size, cSize, isStrict) ==
    cur <= cSize \/ (isStrict /\ cur + size > cSize)

\* Faulty variant: a chunk that has exactly reached chunkSize stays open.
ShouldClose_GreaterOnly(cur, size, cSize, isStrict) ==
    cur > cSize \/ (isStrict /\ cur + size > cSize)

\* currentChunkSize >= chunkSize || (strict && (currentChunkSize+file.Size) > chunkSize)
ShouldClose(cur, size, cSize, isStrict) ==
    cur >= cSize \/ (isStrict /\ cur + size > cSize)

\* The accumulator of the range loop before the first file.
InitAcc ==
    [chunks |-> <<>>, currentChunkIndex |-> 0, currentChunkSize |-> 0,
     currentChunkFilesCnt |-> 0, downloadFileIndexes |-> <<>>,
     noDownloadFileIndexes |-> <<>>, trace |-> <<>>]

\* Faulty variant: closing a chunk does not reset the file counter.
ScanStep_NoCountReset(acc, file, cSize, cIdx, isStrict) ==
    LET close == acc.currentChunkSize >= cSize
                   \/ (isStrict /\ acc.currentChunkSize + file.Size > cSize)
        index1 == IF close THEN acc.currentChunkIndex + 1
                  ELSE acc.currentChunkIndex
    IN  [chunks |-> IF close
                    THEN Append(acc.chunks,
                                Chunk(acc.currentChunkIndex,
                                      acc.currentChunkFilesCnt,
                                      acc.currentChunkSize))
                    ELSE acc.chunks,
         currentChunkIndex |-> index1,
         currentChunkSize |-> (IF close THEN 0 ELSE acc.currentChunkSize)
                                 + file.Size,
         currentChunkFilesCnt |-> acc.currentChunkFilesCnt + 1,
         downloadFileIndexes |->
            IF index1 = cIdx THEN Append(acc.downloadFileIndexes, file.Index)
            ELSE acc.downloadFileIndexes,
         noDownloadFileIndexes |->
            IF index1 = cIdx THEN acc.noDownloadFileIndexes
            ELSE Append(acc.noDownloadFileIndexes, file.Index),
         trace |-> Append(acc.trace,
                          [before |-> acc.currentChunkSize,
                           size |-> file.Size,
                           closed |-> close,
                           chunk |-> index1])]

\* One iteration of the range loop past the strict check (lines 116-128).
ScanStep(acc, file, cSize, cIdx, isStrict) ==
    LET close == ShouldClose(acc.currentChunkSize, file.Size, cSize, isStrict)
        chunks1 == IF close
                   THEN Append(acc.chunks,
                               Chunk(acc.currentChunkIndex,
                                     acc.currentChunkFilesCnt,
                                     acc.currentChunkSize))
                   ELSE acc.chunks
        index1 == IF close THEN acc.currentChunkIndex + 1
                  ELSE acc.currentChunkIndex
        size1 == IF close THEN 0 ELSE acc.currentChunkSize
        cnt1 == IF close THEN 0 ELSE acc.currentChunkFilesCnt
    IN  [chunks |-> chunks1,
         currentChunkIndex |-> index1,
         currentChunkSize |-> size1 + file.Size,
         currentChunkFilesCnt |-> cnt1 + 1,
         downloadFileIndexes |->
            IF index1 = cIdx THEN Append(acc.downloadFileIndexes, file.Index)
            ELSE acc.downloadFileIndexes,
         noDownloadFileIndexes |->
            IF index1 = cIdx THEN acc.noDownloadFileIndexes
            ELSE Append(acc.noDownloadFileIndexes, file.Index),
         trace |-> Append(acc.trace,
                          [before |-> acc.currentChunkSize,
                           size |-> file.Size,
                           closed |-> Len(chunks1) > Len(acc.chunks),
                           chunk |-> index1])]

\* The whole range loop (lines 109-129) from file i on.
RECURSIVE ScanFrom(_, _, _, _, _, _)
ScanFrom(acc, fs, i, cSize, cIdx, isStrict) ==
    IF i > Len(fs) THEN [failed |-> FALSE, acc |-> acc]
    ELSE IF TooLarge(fs[i].Size, cSize, isStrict)
    THEN [failed |-> TRUE, acc |-> acc]
    ELSE ScanFrom(ScanStep(acc, fs[i], cSize, cIdx, isStrict), fs, i + 1,
                  cSize, cIdx, isStrict)

\* The scan fails (line 114) on this list.
ScanFails(fs, cSize, isStrict) ==
    ScanFrom(InitAcc, fs, 1, cSize, 0, isStrict).failed

\* len(chunks) after line 130.
ChunkCount(fs, cSize, isStrict) ==
    Len(ScanFrom(InitAcc, fs, 1, cSize, 0, isStrict).acc.chunks) + 1

\* Marks a file whose priority is still the one it had before the command
\* ran (the command never reads it); the command itself sets 1 or 0.
Untouched == -1

\* SetFilePriority's effect on the client's state.
ApplyPriority(prio, indexes, level) ==
    [k \in DOMAIN prio |->
        IF \E j \in 1..Len(indexes) : indexes[j] = k THEN level ELSE prio[k]]

RECURSIVE SumSizes(_, _, _)
SumSizes(fs, lo, hi) ==
    IF lo > hi THEN 0 ELSE fs[lo].Size + SumSizes(fs, lo + 1, hi)

----------------------------------------------------------------------------
\* State machine

Init ==
    /\ originalOrder \in BOOLEAN
    /\ clientFiles \in FileLists(originalOrder)
    /\ chunkSize \in 0..MaxChunkSize
    /\ chunkIndex \in -1..MaxChunkIndex
    /\ showAll \in BOOLEAN
    /\ strict \in BOOLEAN
    /\ priority = [k \in 0..(Len(clientFiles) - 1) |-> Untouched]
    /\ calls = <<>>
    /\ clientState = "none"
    /\ torrentFiles = <<>>
    /\ pos = 0
    /\ chunks = <<>>
    /\ currentChunkIndex = 0
    /\ currentChunkSize = 0
    /\ currentChunkFilesCnt = 0
    /\ downloadFileIndexes = <<>>
    /\ noDownloadFileIndexes = <<>>
    /\ allSize = 0
    /\ trace = <<>>
    /\ pc = "validate"
    /\ outcome = "running"

\* lines 78-80
InvalidChunkSize ==
    /\ pc = "validate"
    /\ chunkSize <= 0
    /\ pc' = "exit"
    /\ outcome' = "invalid_chunk_size"
    /\ UNCHANGED <<flags, priority, calls, clientState, torrentFiles, pos,
                   scanVars, allSize>>

\* lines 81-83
InvalidChunkIndex ==
    /\ pc = "validate"
    /\ chunkSize > 0
    /\ chunkIndex < 0
    /\ pc' = "exit"
    /\ outcome' = "invalid_chunk_index"
    /\ UNCHANGED <<flags, priority, calls, clientState, torrentFiles, pos,
                   scanVars, allSize>>

\* lines 85, 90 on success, and the sort of lines 95-99
FetchFiles ==
    /\ pc = "validate"
    /\ chunkSize > 0
    /\ chunkIndex >= 0
    /\ clientState' = "open"
    /\ torrentFiles' = IF originalOrder THEN clientFiles
                       ELSE SortByPath(clientFiles)
    /\ pc' = "scan"
    /\ UNCHANGED <<flags, priority, calls, pos, scanVars, allSize, outcome>>

\* lines 85-89: CreateClient returns an error. Line 87 calls Close on what
\* CreateClient returned with the error: on a nil client the call panics and
\* line 88 is not reached, on a client it closes it and line 88 ends the
\* command.
CreateClientFails ==
    /\ pc = "validate"
    /\ chunkSize > 0
    /\ chunkIndex >= 0
    /\ \E nilClient \in BOOLEAN :
          IF nilClient
          THEN /\ clientState' = clientState
               /\ outcome' = "create_panicked"
          ELSE /\ clientState' = "closed"
               /\ outcome' = "create_failed"
    /\ pc' = "exit"
    /\ UNCHANGED <<flags, priority, calls, torrentFiles, pos, scanVars,
                   allSize>>

\* lines 90-94: GetTorrentContents returns an error
FetchFails ==
    /\ pc = "validate"
    /\ chunkSize > 0
    /\ chunkIndex >= 0
    /\ clientState' = "closed"
    /\ pc' = "exit"
    /\ outcome' = "fetch_failed"
    /\ UNCHANGED <<flags, priority, calls, torrentFiles, pos, scanVars,
                   allSize>>

\* lines 110-115: the strict check stops the command
ScanTooLarge ==
    /\ pc = "scan"
    /\ pos < Len(torrentFiles)
    /\ TooLarge(torrentFiles[pos + 1].Size, chunkSize, strict)
    /\ allSize' = allSize + torrentFiles[pos + 1].Size
    /\ pc' = "exit"
    /\ outcome' = "too_large"
    /\ UNCHANGED <<flags, priority, calls, clientState, torrentFiles, pos,
                   scanVars>>

\* lines 110-128: one iteration of the loop
ScanFile ==
    /\ pc = "scan"
    /\ pos < Len(torrentFiles)
    /\ ~TooLarge(torrentFiles[pos + 1].Size, chunkSize, strict)
    /\ LET acc == [chunks |-> chunks,
                   currentChunkIndex |-> currentChunkIndex,
                   currentChunkSize |-> currentChunkSize,
                   currentChunkFilesCnt |-> currentChunkFilesCnt,
                   downloadFileIndexes |-> downloadFileIndexes,
                   noDownloadFileIndexes |-> noDownloadFileIndexes,
                   trace |-> trace]
           new == ScanStep(acc, torrentFiles[pos + 1], chunkSize, chunkIndex,
                           strict)
       IN  /\ chunks' = new.chunks
           /\ currentChunkIndex' = new.currentChunkIndex
           /\ currentChunkSize' = new.currentChunkSize
           /\ currentChunkFilesCnt' = new.currentChunkFilesCnt
           /\ downloadFileIndexes' = new.downloadFileIndexes
           /\ noDownloadFileIndexes' = new.noDownloadFileIndexes
           /\ trace' = new.trace
    /\ allSize' = allSize + torrentFiles[pos + 1].Size
    /\ pos' = pos + 1
    /\ UNCHANGED <<flags, priority, calls, clientState, torrentFiles, pc,
                   outcome>>

\* line 130: the last chunk
AppendLastChunk ==
    /\ pc = "scan"
    /\ pos = Len(torrentFiles)
    /\ chunks' = Append(chunks, Chunk(currentChunkIndex, currentChunkFilesCnt,
                                      currentChunkSize))
    /\ pc' = "dispatch"
    /\ UNCHANGED <<flags, priority, calls, clientState, torrentFiles, pos,
                   currentChunkIndex, currentChunkSize, currentChunkFilesCnt,
                   downloadFileIndexes, noDownloadFileIndexes, allSize, trace,
                   outcome>>

\* lines 131-140
ShowAll ==
    /\ pc = "dispatch"
    /\ showAll
    /\ clientState' = "closed"
    /\ pc' = "exit"
    /\ outcome' = "shown"
    /\ UNCHANGED <<flags, priority, calls, torrentFiles, pos, scanVars,
                   allSize>>

\* Faulty variant: the chunk index is validated after the first call.
IndexOutOfRange_AfterFirstCall ==
    /\ pc = "dispatch"
    /\ ~showAll
    /\ chunkIndex >= Len(chunks)
    /\ calls' = Append(calls, [indexes |-> downloadFileIndexes, level |-> 1,
                               ok |-> TRUE])
    /\ priority' = ApplyPriority(priority, downloadFileIndexes, 1)
    /\ clientState' = "closed"
    /\ pc' = "exit"
    /\ outcome' = "index_out_of_range"
    /\ UNCHANGED <<flags, torrentFiles, pos, scanVars, allSize>>

\* Faulty variant: the chunk index is validated in show-all mode too.
IndexOutOfRange_IgnoresShowAll ==
    /\ pc = "dispatch"
    /\ chunkIndex >= Len(chunks)
    /\ clientState' = "closed"
    /\ pc' = "exit"
    /\ outcome' = "index_out_of_range"
    /\ UNCHANGED <<flags, priority, calls, torrentFiles, pos, scanVars,
                   allSize>>

\* lines 141-144
IndexOutOfRange ==
    /\ pc = "dispatch"
    /\ ~showAll
    /\ chunkIndex >= Len(chunks)
    /\ clientState' = "closed"
    /\ pc' = "exit"
    /\ outcome' = "index_out_of_range"
    /\ UNCHANGED <<flags, priority, calls, torrentFiles, pos, scanVars,
                   allSize>>

\* lines 145-146: the first SetFilePriority succeeds
SetDownload ==
    /\ pc = "dispatch"
    /\ ~showAll
    /\ chunkIndex < Len(chunks)
    /\ calls' = Append(calls, [indexes |-> downloadFileIndexes, level |-> 1,
                               ok |-> TRUE])
    /\ priority' = ApplyPriority(priority, downloadFileIndexes, 1)
    /\ pc' = "second"
    /\ UNCHANGED <<flags, clientState, torrentFiles, pos, scanVars, allSize,
                   outcome>>

\* Faulty variant: the error of the first call is ignored.
SetDownloadFails_Continues ==
    /\ pc = "dispatch"
    /\ ~showAll
    /\ chunkIndex < Len(chunks)
    /\ calls' = Append(calls, [indexes |-> downloadFileIndexes, level |-> 1,
                               ok |-> FALSE])
    /\ pc' = "second"
    /\ UNCHANGED <<flags, priority, clientState, torrentFiles, pos, scanVars,
                   allSize, outcome>>

\* lines 145-150: the first SetFilePriority returns an error
SetDownloadFails ==
    /\ pc = "dispatch"
    /\ ~showAll
    /\ chunkIndex < Len(chunks)
    /\ calls' = Append(calls, [indexes |-> downloadFileIndexes, level |-> 1,
                               ok |-> FALSE])
    /\ clientState' = "closed"
    /\ pc' = "exit"
    /\ outcome' = "set_download_failed"
    /\ UNCHANGED <<flags, priority, torrentFiles, pos, scanVars, allSize>>

\* lines 151-152, 157-161: the second SetFilePriority succeeds
SetNoDownload ==
    /\ pc = "second"
    /\ calls' = Append(calls, [indexes |-> noDownloadFileIndexes, level |-> 0,
                               ok |-> TRUE])
    /\ priority' = ApplyPriority(priority, noDownloadFileIndexes, 0)
    /\ clientState' = "closed"
    /\ pc' = "exit"
    /\ outcome' = "ok"
    /\ UNCHANGED <<flags, torrentFiles, pos, scanVars, allSize>>

\* lines 151-156: the second SetFilePriority returns an error
SetNoDownloadFails ==
    /\ pc = "second"
    /\ calls' = Append(calls, [indexes |-> noDownloadFileIndexes, level |-> 0,
                               ok |-> FALSE])
    /\ clientState' = "closed"
    /\ pc' = "exit"
    /\ outcome' = "set_nodownload_failed"
    /\ UNCHANGED <<flags, priority, torrentFiles, pos, scanVars, allSize>>

Next ==
    \/ InvalidChunkSize
    \/ InvalidChunkIndex
    \/ CreateClientFails
    \/ FetchFails
    \/ FetchFiles
    \/ ScanTooLarge
    \/ ScanFile
    \/ AppendLastChunk
    \/ ShowAll
    \/ IndexOutOfRange
    \/ SetDownload
    \/ SetDownloadFails
    \/ SetNoDownload
    \/ SetNoDownloadFails

Spec == Init /\ [][Next]_vars

----------------------------------------------------------------------------
\* State predicates shared by the properties

\* The range loop ran to its end and line 130 appended the last chunk.
ScanCompleted ==
    pc \in {"dispatch", "second"} \/
    outcome \in {"shown", "index_out_of_range", "set_download_failed",
                 "set_nodownload_failed", "ok"}

\* The file list has been fetched.
Fetched == pc \in {"scan", "dispatch", "second"} \/ ScanCompleted
              \/ outcome = "too_large"

TypeOK ==
    /\ pc \in {"validate", "scan", "dispatch", "second", "exit"}
    /\ clientState \in {"none", "open", "closed"}
    /\ pos \in 0..Len(torrentFiles)
    /\ Len(trace) = pos

----------------------------------------------------------------------------
\* Properties of the partition

\* Number of files in the chunks before chunk k (1-based position in chunks).
RECURSIVE FilesBefore(_, _)
FilesBefore(cs, k) ==
    IF k <= 1 THEN 0 ELSE cs[k - 1].FilesCnt + FilesBefore(cs, k - 1)

RECURSIVE SumChunkSizes(_, _)
SumChunkSizes(cs, k) ==
    IF k < 1 THEN 0 ELSE cs[k].Size + SumChunkSizes(cs, k - 1)

\* Chunk k is the contiguous run of the scan order that starts right after
\* the files of the chunks before it, and the loop put exactly these files
\* in it.
ChunkIsRun(k) ==
    LET lo == FilesBefore(chunks, k) + 1
        hi == FilesBefore(chunks, k) + chunks[k].FilesCnt
    IN  /\ chunks[k].Index = k - 1
        /\ chunks[k].FilesCnt >= 1
        /\ hi <= Len(torrentFiles)
        /\ chunks[k].Size = SumSizes(torrentFiles, lo, hi)
        /\ \A i \in 1..Len(trace) : (trace[i].chunk = k - 1) <=> (lo <= i /\ i <= hi)

\* C1: for a non-empty file list, once the scan has completed the chunks
\* partition the file list exactly: each chunk is a contiguous run of the
\* scan order with at least one file, the file counts sum to the number of
\* files, the sizes sum to the total size, no file is skipped, duplicated
\* or split.
C1_ChunksPartitionFiles ==
    (ScanCompleted /\ Len(torrentFiles) > 0) =>
        /\ Len(trace) = Len(torrentFiles)
        /\ \A k \in 1..Len(chunks) : ChunkIsRun(k)
        /\ FilesBefore(chunks, Len(chunks) + 1) = Len(torrentFiles)
        /\ SumChunkSizes(chunks, Len(chunks)) =
              SumSizes(torrentFiles, 1, Len(torrentFiles))
        /\ allSize = SumSizes(torrentFiles, 1, Len(torrentFiles))
        /\ \A i \in 1..Len(trace) : trace[i].chunk \in 0..(Len(chunks) - 1)

\* A completed scan of three files that produced more than one chunk, one of
\* them with more than one file.
C1_Witness ==
    /\ ScanCompleted
    /\ Len(torrentFiles) = 3
    /\ Len(chunks) = 2
    /\ \E k \in 1..Len(chunks) : chunks[k].FilesCnt = 2

\* C2: in strict mode, on a non-empty file list, the scan fails iff some
\* file is larger than chunkSize, and when it completes every chunk, the
\* last one included, has a total size <= chunkSize.
C2_StrictBound ==
    (strict /\ Len(torrentFiles) > 0 /\ (ScanCompleted \/ pc = "exit")) =>
        /\ (outcome = "too_large") <=>
              (\E i \in 1..Len(torrentFiles) : torrentFiles[i].Size > chunkSize)
        /\ ScanCompleted =>
              \A k \in 1..Len(chunks) : chunks[k].Size <= chunkSize

\* A strict scan that completed with a chunk filled to exactly chunkSize by
\* more than one file.
C2_Witness ==
    /\ strict
    /\ ScanCompleted
    /\ Len(chunks) >= 2
    /\ \E k \in 1..Len(chunks) :
          chunks[k].Size = chunkSize /\ chunks[k].FilesCnt >= 2

\* C3: in non-strict mode, on a non-empty file list, the scan never fails
\* because of a file's size and every chunk but possibly the last has a
\* total size >= chunkSize.
C3_NonStrictBound ==
    (~strict /\ Len(torrentFiles) > 0) =>
        /\ outcome # "too_large"
        /\ (pc = "scan" /\ pos = Len(torrentFiles)) =>
              \A k \in 1..Len(chunks) : chunks[k].Size >= chunkSize
        /\ ScanCompleted =>
              \A k \in 1..(Len(chunks) - 1) : chunks[k].Size >= chunkSize

\* A non-strict scan that completed over a file larger than chunkSize, with
\* a last chunk below chunkSize.
C3_Witness ==
    /\ ~strict
    /\ ScanCompleted
    /\ Len(chunks) >= 2
    /\ chunks[Len(chunks)].Size < chunkSize
    /\ \E i \in 1..Len(torrentFiles) : torrentFiles[i].Size > chunkSize

----------------------------------------------------------------------------
\* Properties of the side effects

\* The priorities the client holds before the command touches them.
InitialPriority == [k \in DOMAIN priority |-> Untouched]

\* The process ended with exit status zero (line 139 or the return of
\* line 162).
ExitZero == pc = "exit" /\ outcome \in {"shown", "ok"}

\* C4: every failure detected before the mutation step (invalid chunk size,
\* negative chunk index, file list fetch failure, strict-mode oversized
\* file, chunk index >= chunk count) ends the command with a failure,
\* issues no SetFilePriority call and leaves the priorities unchanged; the
\* chunk index is checked against the chunk count only after the whole
\* partition has been computed.
C4_EarlyFailuresDoNotMutate ==
    /\ outcome \in {"invalid_chunk_size", "invalid_chunk_index",
                    "fetch_failed", "too_large", "index_out_of_range"} =>
          /\ pc = "exit"
          /\ ~ExitZero
          /\ calls = <<>>
          /\ priority = InitialPriority
    /\ outcome \in {"invalid_chunk_size", "invalid_chunk_index",
                    "fetch_failed"} => pos = 0 /\ chunks = <<>>
    /\ outcome = "index_out_of_range" =>
          /\ pos = Len(torrentFiles)
          /\ Len(chunks) = currentChunkIndex + 1
          /\ chunkIndex >= Len(chunks)
    /\ (pc = "scan" /\ chunkIndex > currentChunkIndex) =>
          outcome = "running"

\* A chunk index beyond the chunk count rejected after a scan of several
\* files that produced several chunks.
C4_Witness ==
    /\ outcome = "index_out_of_range"
    /\ Len(torrentFiles) >= 2
    /\ Len(chunks) >= 2

\* C5: in show-all mode no SetFilePriority call is ever issued and the chunk
\* index is never checked against the chunk count: whenever the partition
\* completes the run ends with exit status zero after the chunk table, also
\* for a chunk index >= the chunk count.
C5_ShowAllNeverMutates ==
    showAll =>
        /\ calls = <<>>
        /\ priority = InitialPriority
        /\ pc # "second"
        /\ outcome \notin {"index_out_of_range", "set_download_failed",
                           "set_nodownload_failed", "ok"}
        /\ (ScanCompleted /\ pc = "exit") => (outcome = "shown" /\ ExitZero)

\* A show-all run that ended with the chunk table although the chunk index
\* is beyond the chunk count.
C5_Witness ==
    /\ showAll
    /\ outcome = "shown"
    /\ Len(torrentFiles) >= 1
    /\ chunkIndex >= Len(chunks)

\* C6: with a valid chunk index and outside show-all mode, the "download"
\* call is issued first and the "no-download" call only after the first one
\* succeeded; a failed first call ends the command without a second call; a
\* failed second call ends the command with a failure and the first call's
\* effect stays; success is reported only when both calls succeeded.
C6_MutationOrder ==
    /\ Len(calls) <= 2
    /\ Len(calls) >= 1 =>
          /\ ~showAll /\ ScanCompleted /\ chunkIndex < Len(chunks)
          /\ calls[1].level = 1
          /\ calls[1].indexes = downloadFileIndexes
    /\ Len(calls) = 2 =>
          /\ calls[1].ok
          /\ calls[2].level = 0
          /\ calls[2].indexes = noDownloadFileIndexes
    /\ pc = "second" => (Len(calls) = 1 /\ calls[1].ok)
    /\ outcome = "set_download_failed" =>
          /\ Len(calls) = 1 /\ ~calls[1].ok /\ ~ExitZero
          /\ priority = InitialPriority
    /\ outcome = "set_nodownload_failed" =>
          /\ Len(calls) = 2 /\ ~calls[2].ok /\ ~ExitZero
          /\ priority = ApplyPriority(InitialPriority, downloadFileIndexes, 1)
    /\ outcome = "ok" =>
          /\ Len(calls) = 2 /\ calls[1].ok /\ calls[2].ok
          /\ priority = ApplyPriority(
                            ApplyPriority(InitialPriority,
                                          downloadFileIndexes, 1),
                            noDownloadFileIndexes, 0)

\* The second call failed after the first one had marked files for download.
C6_Witness ==
    /\ outcome = "set_nodownload_failed"
    /\ \E k \in DOMAIN priority : priority[k] = 1
    /\ \E k \in DOMAIN priority : priority[k] = Untouched

----------------------------------------------------------------------------
\* Properties of the closing rule

\* The chunk the loop put file i (position in the scan order) in.
ChunkOf(i) == chunks[trace[i].chunk + 1]

\* C7 as stated: in non-strict mode every file larger than chunkSize is
\* alone in its chunk, whose file count is 1 and whose size is the file's.
C7_OversizedFileIsAlone ==
    (~strict /\ ScanCompleted) =>
        \A i \in 1..Len(torrentFiles) :
            torrentFiles[i].Size > chunkSize =>
                /\ ChunkOf(i).FilesCnt = 1
                /\ ChunkOf(i).Size = torrentFiles[i].Size

\* C7 (amended): in non-strict mode every file larger than chunkSize is the
\* last file of its chunk; it is alone in that chunk exactly when it is the
\* first file of the scan or the open chunk had already reached chunkSize
\* when the file was scanned, and otherwise it joins the files of the open
\* chunk.
C7_OversizedFileEndsChunk ==
    (~strict /\ ScanCompleted) =>
        \A i \in 1..Len(torrentFiles) :
            torrentFiles[i].Size > chunkSize =>
                /\ i < Len(torrentFiles) =>
                      trace[i + 1].chunk = trace[i].chunk + 1
                /\ ChunkOf(i).Size >= torrentFiles[i].Size
                /\ (ChunkOf(i).FilesCnt = 1
                      /\ ChunkOf(i).Size = torrentFiles[i].Size)
                   <=> (i = 1 \/ trace[i].before >= chunkSize)

\* A non-strict scan put a file larger than chunkSize in a chunk together
\* with a file scanned before it, and a further chunk follows.
C7_Witness ==
    /\ ~strict
    /\ ScanCompleted
    /\ \E i \in 2..(Len(torrentFiles) - 1) :
          /\ torrentFiles[i].Size > chunkSize
          /\ ChunkOf(i).FilesCnt >= 2
          /\ trace[i - 1].size > 0

\* C8: for a fixed file list and mode the chunk count does not decrease as
\* chunkSize decreases: the count of the run is >= the count of every scan
\* of the same list with a larger chunk size and <= the count of every scan
\* with a smaller one, whenever both scans complete (stated where line 130
\* has just fixed the count).
C8_ChunkCountMonotone ==
    pc = "dispatch" =>
        /\ Len(chunks) = ChunkCount(torrentFiles, chunkSize, strict)
        /\ \A c \in 1..(MaxChunkSize + 1) :
              ~ScanFails(torrentFiles, c, strict) =>
                 /\ c >= chunkSize =>
                       ChunkCount(torrentFiles, c, strict) <= Len(chunks)
                 /\ c <= chunkSize =>
                       ChunkCount(torrentFiles, c, strict) >= Len(chunks)

\* A completed strict scan whose list yields strictly fewer chunks with a
\* larger chunk size, over a list with a zero-size file.
C8_Witness ==
    /\ pc = "dispatch"
    /\ strict
    /\ Len(chunks) >= 2
    /\ \E i \in 1..Len(torrentFiles) : torrentFiles[i].Size = 0
    /\ \E c \in (chunkSize + 1)..(MaxChunkSize + 1) :
          ChunkCount(torrentFiles, c, strict) < Len(chunks)

\* C9 as stated: on an empty file list the command fails fast, produces no
\* chunk without files and issues no SetFilePriority call.
C9_EmptyListFailsFast ==
    (Fetched /\ Len(torrentFiles) = 0) =>
        /\ calls = <<>>
        /\ \A k \in 1..Len(chunks) : chunks[k].FilesCnt >= 1
        /\ ~ExitZero

\* No file of the list is larger than chunkSize.
AllFilesFit == \A i \in 1..Len(torrentFiles) : torrentFiles[i].Size <= chunkSize

\* C10 as stated: in strict mode, over a list whose sizes are all within
\* 0..chunkSize, the open chunk is closed before a file exactly when
\* accumulated + file size > chunkSize.
C10_StrictClosesOnlyOnOverflow ==
    (strict /\ Fetched /\ AllFilesFit) =>
        \A i \in 1..Len(trace) :
            trace[i].closed <=> (trace[i].before + trace[i].size > chunkSize)

\* C10 (amended): in strict mode, over a list whose sizes are all within
\* 0..chunkSize, the open chunk is closed before a file exactly when
\* accumulated + file size > chunkSize, or when the accumulated size equals
\* chunkSize and the file has size zero.
C10_StrictClosesOnOverflowOrFull ==
    (strict /\ Fetched /\ AllFilesFit) =>
        \A i \in 1..Len(trace) :
            /\ trace[i].size = torrentFiles[i].Size
            /\ trace[i].before <= chunkSize
            /\ trace[i].closed <=>
                  \/ trace[i].before + trace[i].size > chunkSize
                  \/ (trace[i].before = chunkSize /\ trace[i].size = 0)

\* A strict scan closed one chunk because the next file would not fit and
\* another one, already full, before a zero-size file.
C10_Witness ==
    /\ strict
    /\ AllFilesFit
    /\ \E i \in 1..Len(trace) :
          /\ trace[i].closed
          /\ trace[i].before < chunkSize
          /\ trace[i].before + trace[i].size > chunkSize
    /\ \E i \in 1..Len(trace) :
          /\ trace[i].closed
          /\ trace[i].before = chunkSize
          /\ trace[i].size = 0

----------------------------------------------------------------------------
\* Properties of the download and no-download sets

\* The file indexes a slice of indexes holds.
IndexSet(indexes) == {indexes[j] : j \in 1..Len(indexes)}

\* The file indexes of the files at the scan positions lo..hi, in scan order.
RECURSIVE IndexesOfRun(_, _, _)
IndexesOfRun(fs, lo, hi) ==
    IF lo > hi THEN <<>>
    ELSE <<fs[lo].Index>> \o IndexesOfRun(fs, lo + 1, hi)

\* The file indexes of the files of the chunk with sequential index c (none
\* when there is no such chunk).
IndexesOfChunk(c) ==
    IF c + 1 \in 1..Len(chunks)
    THEN IndexesOfRun(torrentFiles, FilesBefore(chunks, c + 1) + 1,
                      FilesBefore(chunks, c + 1) + chunks[c + 1].FilesCnt)
    ELSE <<>>

\* C11: after a completed scan the download set and the no-download set are
\* disjoint and hold every input file index exactly once; the download set
\* is exactly the file indexes of the chunk whose sequential index is
\* chunkIndex, so its length is that chunk's file count and it is empty iff
\* chunkIndex >= the chunk count; chunk indexes are 0, 1, 2, ... in closing
\* order and the chunk count is the number of closed chunks plus one.
C11_DownloadSetIsSelectedChunk ==
    ScanCompleted =>
        /\ IndexSet(downloadFileIndexes)
              \cap IndexSet(noDownloadFileIndexes) = {}
        /\ IndexSet(downloadFileIndexes) \cup IndexSet(noDownloadFileIndexes)
              = {torrentFiles[i].Index : i \in 1..Len(torrentFiles)}
        /\ Len(downloadFileIndexes) + Len(noDownloadFileIndexes)
              = Len(torrentFiles)
        /\ Cardinality(IndexSet(downloadFileIndexes))
              = Len(downloadFileIndexes)
        /\ Cardinality(IndexSet(noDownloadFileIndexes))
              = Len(noDownloadFileIndexes)
        /\ downloadFileIndexes = IndexesOfChunk(chunkIndex)
        /\ chunkIndex < Len(chunks) =>
              Len(downloadFileIndexes) = chunks[chunkIndex + 1].FilesCnt
        /\ (downloadFileIndexes = <<>>) <=> (chunkIndex >= Len(chunks))
        /\ \A k \in 1..Len(chunks) : chunks[k].Index = k - 1
        /\ Len(chunks) =
              Cardinality({i \in 1..Len(trace) : trace[i].closed}) + 1

----------------------------------------------------------------------------
\* Properties of the client instance

\* CreateClient (line 85) returned without an error on this run.
ClientCreated ==
    /\ pc # "validate"
    /\ outcome \notin {"invalid_chunk_size", "invalid_chunk_index",
                       "create_failed", "create_panicked"}

\* C12: once the client has been created, every path on which the command
\* ends (file list fetch failure, strict-mode oversized file, show-all exit,
\* chunk index out of range, failure of either SetFilePriority call,
\* success) has closed the client instance.
C12_EveryExitClosesClient ==
    (pc = "exit" /\ ClientCreated) => clientState = "closed"
====
